---- MODULE Spec2Model ----
(***************************************************************************)
(* Constructive CVRP heuristics of heuristics.py: cheapest insertion,      *)
(* route-first-cluster-second and Clarke-Wright savings, each followed by  *)
(* the capacity split and/or the fleet-size repair the code applies.       *)
(*                                                                         *)
(* Clients are the indices 0..num_clients-1 as in the code.  Python lists  *)
(* are TLA+ sequences (1-based), so Python route[p] is route[p + 1] here.  *)
(* The savings slot arrays (routes, route_loads, client_route) are         *)
(* functions over 0..num_clients-1.                                        *)
(***************************************************************************)
EXTENDS Integers, Sequences, FiniteSets, TLC

\* ------------------------------------------------------------------ bounds
MaxClients == 4
MaxDemand == 1
MaxCapacity == 1
MaxVehicles == 2
\* the largest instance on which a builder is invoked twice
MaxRerunClients == 3

\* Client positions.  Every distance among these points and the depot is an
\* integer (a 3-4-5 triangle), so math.hypot is exact on them.
Points == {<<3, 0>>, <<0, 4>>}
DepotPoints == {<<0, 0>>}

\* float("inf"), the capacity of an instance without a load dimension
Inf == -1

Builders == {"insertion", "route_first_cluster_second", "savings"}

VARIABLES
    \* the instance, as basic_data returns it
    num_clients, depot_coord, client_coords, client_demands, capacity,
    \* data.num_vehicles (the local max_vehicles of lines 157 and 277); -1
    \* until the builder reads it or hands data to Solution
    num_vehicles,
    \* which builder runs, where it is, and which invocation this is
    builder, pc, invocation, first_result,
    \* insertion / route_first_cluster_second locals
    unvisited, route, tour, best_pos, best_client,
    \* capacity split locals (routes is also the savings slot array)
    routes, current_route, current_load, idx,
    \* savings locals
    savings_list, route_loads, client_route, k,
    route_i, route_j, load_i, load_j, new_route, outcome,
    \* what the builder hands to Solution(data, ...), or the client it raised on
    result, err_client

instance == <<num_clients, depot_coord, client_coords, client_demands,
              capacity>>
order_locals == <<unvisited, route, tour, best_pos, best_client>>
split_locals == <<current_route, current_load, idx>>
savings_locals == <<savings_list, route_loads, client_route, k,
                    route_i, route_j, load_i, load_j, new_route, outcome>>
vars == <<instance, num_vehicles, builder, pc, invocation, first_result,
          order_locals, routes, split_locals, savings_locals, result,
          err_client>>

Clients == 0 .. (num_clients - 1)

\* ------------------------------------------------------- pure helpers
\* exact square root of a perfect square
ISqrt(n) == CHOOSE r \in 0 .. n : r * r = n

\* _euclidean: math.hypot(dx, dy)
Euclidean(p1, p2) ==
    LET dx == p1[1] - p2[1]
        dy == p1[2] - p2[2]
    IN  ISqrt(dx * dx + dy * dy)

\* x > capacity for a float capacity that may be float("inf")
Exceeds(x, cap) == cap # Inf /\ x > cap

\* iteration order of a Python set of small non-negative ints.  CPython
\* hashes an int to itself and keeps a table larger than the set, so the
\* set built by set(range(n)) is walked in ascending order, also after
\* removals.
RECURSIVE SetIter(_)
SetIter(S) ==
    IF S = {} THEN <<>>
    ELSE LET m == CHOOSE x \in S : \A y \in S : x <= y
         IN  <<m>> \o SetIter(S \ {m})

\* min(iterable, key=...): the first element, in iteration order, whose key
\* is strictly smaller than every key before it
RECURSIVE PyMinFrom(_, _, _, _)
PyMinFrom(it, key, p, best) ==
    IF p > Len(it) THEN best
    ELSE PyMinFrom(it, key, p + 1,
                   IF key[it[p]] < key[best] THEN it[p] ELSE best)

PyMin(S, key) == LET it == SetIter(S) IN PyMinFrom(it, key, 2, it[1])

\* list.insert(pos, x), pos 0-based
ListInsert(s, pos, x) ==
    SubSeq(s, 1, pos) \o <<x>> \o SubSeq(s, pos + 1, Len(s))

\* list(reversed(s))
Reversed(s) == [p \in 1 .. Len(s) |-> s[Len(s) + 1 - p]]

\* faulty variant of PySliceFrom: a negative start counts as 0 instead of
\* from the end
PySliceFromClamped(s, a) ==
    LET st == IF a < 0 THEN 0 ELSE IF a > Len(s) THEN Len(s) ELSE a
    IN  SubSeq(s, st + 1, Len(s))

\* s[a:] with Python's treatment of negative and out-of-range bounds
PySliceFrom(s, a) ==
    LET st == IF a < 0 THEN (IF Len(s) + a < 0 THEN 0 ELSE Len(s) + a)
              ELSE IF a > Len(s) THEN Len(s) ELSE a
    IN  SubSeq(s, st + 1, Len(s))

\* s[:b]
PySliceTo(s, b) ==
    LET en == IF b < 0 THEN (IF Len(s) + b < 0 THEN 0 ELSE Len(s) + b)
              ELSE IF b > Len(s) THEN Len(s) ELSE b
    IN  SubSeq(s, 1, en)

\* merged = []; for r in rs: merged.extend(r)
RECURSIVE Extend(_)
Extend(rs) == IF rs = <<>> THEN <<>> ELSE Head(rs) \o Extend(Tail(rs))

\* faulty variant of TailMerge: the merged route starts one route too late,
\* so route max_vehicles - 1 is lost
TailMergeShort(rs, mv) ==
    PySliceTo(rs, mv - 1) \o <<Extend(PySliceFrom(rs, mv))>>

\* faulty variant of TailMerge: max_vehicles routes are kept before the
\* merged one
TailMergeLate(rs, mv) ==
    PySliceTo(rs, mv) \o <<Extend(PySliceFrom(rs, mv))>>

\* lines 159-162 / 279-282: routes[: max_vehicles - 1] + [merged]
TailMerge(rs, mv) ==
    PySliceTo(rs, mv - 1) \o <<Extend(PySliceFrom(rs, mv - 1))>>

RECURSIVE SumDemand(_, _)
SumDemand(r, dem) ==
    IF r = <<>> THEN 0 ELSE dem[Head(r)] + SumDemand(Tail(r), dem)

Range(s) == {s[p] : p \in 1 .. Len(s)}

\* The values data.num_vehicles can take.  A builder reads it once, after
\* construction (lines 157 and 277; insertion only passes data on, line 106),
\* so the instance's value is drawn at that point; a second invocation on
\* the same instance meets the value the first one met.
NumVehicles ==
    IF first_result.num_vehicles # -1 THEN {first_result.num_vehicles}
    ELSE 0 .. MaxVehicles

\* ------------------------------------------------------------- Init
Init ==
    /\ num_clients \in 1 .. MaxClients
    /\ depot_coord \in DepotPoints
    /\ client_coords \in [0 .. (num_clients - 1) -> Points]
    /\ client_demands \in [0 .. (num_clients - 1) -> 0 .. MaxDemand]
    /\ capacity \in (0 .. MaxCapacity) \cup {Inf}
    /\ num_vehicles = -1
    /\ builder \in Builders
    /\ pc = "start"
    /\ invocation = 1
    /\ first_result = [err |-> -1, routes |-> <<>>, num_vehicles |-> -1]
    /\ unvisited = {}
    /\ route = <<>>
    /\ tour = <<>>
    /\ best_pos = -1
    /\ best_client = -1
    /\ routes = <<>>
    /\ current_route = <<>>
    /\ current_load = 0
    /\ idx = 0
    /\ savings_list = <<>>
    /\ route_loads = <<>>
    /\ client_route = <<>>
    /\ k = 0
    /\ route_i = <<>>
    /\ route_j = <<>>
    /\ load_i = 0
    /\ load_j = 0
    /\ new_route = <<>>
    /\ outcome = "none"
    /\ result = <<>>
    /\ err_client = -1

\* ------------------------------------------- route_first_cluster_second
\* distance from point c to every client
DistFrom(c) == [x \in Clients |-> Euclidean(c, client_coords[x])]

\* lines 122-128: the tour starts at the client nearest the depot
RfcsFirst ==
    /\ builder = "route_first_cluster_second" /\ pc = "start"
    /\ LET current == PyMin(Clients, DistFrom(depot_coord))
       IN  /\ tour' = <<current>>
           /\ unvisited' = Clients \ {current}
           /\ pc' = IF Clients \ {current} = {} THEN "split" ELSE "nn"
    /\ idx' = 1
    /\ UNCHANGED <<instance, num_vehicles, builder, invocation,
                   first_result, route,
                   best_pos, best_client, routes, current_route,
                   current_load, savings_locals, result, err_client>>

\* lines 130-135: one iteration of the nearest-neighbour loop
RfcsNearest ==
    /\ builder = "route_first_cluster_second" /\ pc = "nn"
    /\ unvisited # {}
    /\ LET cur_coord == client_coords[tour[Len(tour)]]
           next_client == PyMin(unvisited, DistFrom(cur_coord))
       IN  /\ tour' = Append(tour, next_client)
           /\ unvisited' = unvisited \ {next_client}
           /\ pc' = IF unvisited \ {next_client} = {} THEN "split" ELSE "nn"
    /\ UNCHANGED <<instance, num_vehicles, builder, invocation,
                   first_result, route,
                   best_pos, best_client, routes, split_locals,
                   savings_locals, result, err_client>>

\* ---------------------------------------------------------- insertion
\* lines 71-75: cost increase of putting client at position pos of rt
Increase(rt, client, pos) ==
    LET prev_coord == IF pos = 0 THEN depot_coord
                      ELSE client_coords[rt[pos]]
        next_coord == IF pos = Len(rt) THEN depot_coord
                      ELSE client_coords[rt[pos + 1]]
    IN  Euclidean(prev_coord, client_coords[client])
        + Euclidean(client_coords[client], next_coord)
        - Euclidean(prev_coord, next_coord)

\* lines 67-69: the (client, pos) pairs in the order the two loops visit them
Candidates(unv, rt) ==
    LET it == SetIter(unv)
        L == Len(rt) + 1
    IN  [q \in 1 .. (Len(it) * L) |->
            <<it[((q - 1) \div L) + 1], (q - 1) % L>>]

\* faulty variant of CheapestFrom: an equal increase replaces the best so
\* far, so the last candidate of a tie wins
RECURSIVE CheapestFromLax(_, _, _, _)
CheapestFromLax(cands, rt, p, best) ==
    IF p > Len(cands) THEN best
    ELSE LET client == cands[p][1]
             pos == cands[p][2]
             increase == Increase(rt, client, pos)
         IN  CheapestFromLax(cands, rt, p + 1,
                IF ~best.found \/ increase <= best.best_increase
                THEN [found |-> TRUE, best_increase |-> increase,
                      best_pos |-> pos, best_client |-> client]
                ELSE best)

\* lines 63-83: best_increase starts at float("inf") (found = FALSE) and is
\* replaced only by a strictly smaller increase
RECURSIVE CheapestFrom(_, _, _, _)
CheapestFrom(cands, rt, p, best) ==
    IF p > Len(cands) THEN best
    ELSE LET client == cands[p][1]
             pos == cands[p][2]
             increase == Increase(rt, client, pos)
         IN  CheapestFrom(cands, rt, p + 1,
                IF ~best.found \/ increase < best.best_increase
                THEN [found |-> TRUE, best_increase |-> increase,
                      best_pos |-> pos, best_client |-> client]
                ELSE best)

Cheapest(unv, rt) ==
    CheapestFrom(Candidates(unv, rt), rt, 1,
                 [found |-> FALSE, best_increase |-> 0,
                  best_pos |-> -1, best_client |-> -1])

\* lines 54-59: the route starts at the client nearest the depot
InsertionFirst ==
    /\ builder = "insertion" /\ pc = "start"
    /\ LET first == PyMin(Clients, DistFrom(depot_coord))
       IN  /\ route' = <<first>>
           /\ unvisited' = Clients \ {first}
           /\ pc' = IF Clients \ {first} = {} THEN "split" ELSE "insert"
    /\ idx' = 1
    /\ UNCHANGED <<instance, num_vehicles, builder, invocation,
                   first_result, tour,
                   best_pos, best_client, routes, current_route,
                   current_load, savings_locals, result, err_client>>

\* lines 62-86: one iteration of the cheapest-insertion loop
InsertionStep ==
    /\ builder = "insertion" /\ pc = "insert"
    /\ unvisited # {}
    /\ LET best == Cheapest(unvisited, route)
       IN  /\ best_pos' = best.best_pos
           /\ best_client' = best.best_client
           /\ route' = ListInsert(route, best.best_pos, best.best_client)
           /\ unvisited' = unvisited \ {best.best_client}
           /\ pc' = IF unvisited \ {best.best_client} = {}
                    THEN "split" ELSE "insert"
    /\ UNCHANGED <<instance, num_vehicles, builder, invocation,
                   first_result, tour,
                   routes, split_locals, savings_locals, result, err_client>>

\* ----------------------------------------------------- capacity split
\* the order the split walks: route in insertion, tour in
\* route_first_cluster_second
SplitOrder == IF builder = "insertion" THEN route ELSE tour

\* faulty variant of SplitCloses: the load already on the route is forgotten
SplitClosesOnDemand(cur_route, cur_load, demand) ==
    cur_route # <<>> /\ Exceeds(demand, capacity)

\* faulty variant of SplitCloses: the new client's demand is forgotten
SplitClosesOnLoad(cur_route, cur_load, demand) ==
    cur_route # <<>> /\ Exceeds(cur_load, capacity)

\* lines 95 / 145: the open route is closed before this client is added
SplitCloses(cur_route, cur_load, demand) ==
    cur_route # <<>> /\ Exceeds(cur_load + demand, capacity)

\* lines 93-101 / 142-151: one iteration of the split loop
SplitStep ==
    /\ builder \in {"insertion", "route_first_cluster_second"}
    /\ pc = "split"
    /\ idx <= Len(SplitOrder)
    /\ LET client == SplitOrder[idx]
           demand == client_demands[client]
       IN  IF SplitCloses(current_route, current_load, demand)
           THEN /\ routes' = Append(routes, current_route)
                /\ current_route' = <<client>>
                /\ current_load' = demand
           ELSE /\ routes' = routes
                /\ current_route' = Append(current_route, client)
                /\ current_load' = current_load + demand
    /\ idx' = idx + 1
    /\ UNCHANGED <<instance, num_vehicles, builder, pc, invocation,
                   first_result,
                   order_locals, savings_locals, result, err_client>>

\* lines 103-104 / 153-154: the last open route is closed
SplitFinish ==
    /\ builder \in {"insertion", "route_first_cluster_second"}
    /\ pc = "split"
    /\ idx > Len(SplitOrder)
    /\ routes' = IF current_route # <<>>
                 THEN Append(routes, current_route) ELSE routes
    /\ pc' = IF builder = "insertion" THEN "return" ELSE "repair"
    /\ UNCHANGED <<instance, num_vehicles, builder, invocation,
                   first_result,
                   order_locals, split_locals, savings_locals, result,
                   err_client>>

\* line 106: insertion returns Solution(data, routes) with no fleet repair
InsertionReturn ==
    /\ builder = "insertion" /\ pc = "return"
    /\ \E mv \in NumVehicles : num_vehicles' = mv
    /\ result' = routes
    /\ pc' = "done"
    /\ UNCHANGED <<instance, builder, invocation, first_result,
                   order_locals, routes, split_locals, savings_locals,
                   err_client>>

\* lines 157-164: fleet-size repair of route_first_cluster_second, and return
RfcsRepair ==
    /\ builder = "route_first_cluster_second" /\ pc = "repair"
    /\ \E mv \in NumVehicles :
          /\ num_vehicles' = mv
          /\ result' = IF Len(routes) > mv
                       THEN TailMerge(routes, mv)
                       ELSE routes
    /\ pc' = "done"
    /\ UNCHANGED <<instance, builder, invocation, first_result,
                   order_locals, routes, split_locals, savings_locals,
                   err_client>>

\* ------------------------------------------------------------- savings
\* line 185-187: depot-client distances
D0(c) == Euclidean(depot_coord, client_coords[c])

\* lines 189-193: client-client distances, 0.0 on the diagonal
Dcc(a, b) == IF a = b THEN 0 ELSE Euclidean(client_coords[a], client_coords[b])

\* lines 196-200: (s_ij, i, j) for i < j, in the order the two loops append
RECURSIVE SavingsPairs(_, _)
SavingsPairs(a, b) ==
    IF a >= num_clients THEN <<>>
    ELSE IF b >= num_clients THEN SavingsPairs(a + 1, a + 2)
    ELSE <<<<D0(a) + D0(b) - Dcc(a, b), a, b>>>> \o SavingsPairs(a, b + 1)

\* where a stable descending sort puts e in an already sorted list: after
\* every entry whose key is greater than or equal to e's key
InsertDesc(sorted, e) ==
    LET before == {p \in 1 .. Len(sorted) : sorted[p][1] >= e[1]}
    IN  SubSeq(sorted, 1, Cardinality(before)) \o <<e>>
        \o SubSeq(sorted, Cardinality(before) + 1, Len(sorted))

\* line 203: list.sort(key=lambda x: x[0], reverse=True), which is stable
RECURSIVE SortDesc(_)
SortDesc(list) ==
    IF list = <<>> THEN <<>>
    ELSE InsertDesc(SortDesc(SubSeq(list, 1, Len(list) - 1)),
                    list[Len(list)])

\* lines 184-210: distances, sorted savings, singleton routes, loads, map
SavingsSetup ==
    /\ builder = "savings" /\ pc = "start"
    /\ savings_list' = SortDesc(SavingsPairs(0, 1))
    /\ routes' = [r \in Clients |-> <<r>>]
    /\ route_loads' = [r \in Clients |-> client_demands[r]]
    /\ client_route' = [c \in Clients |-> c]
    /\ pc' = "check"
    /\ UNCHANGED <<instance, num_vehicles, builder, invocation,
                   first_result,
                   order_locals, split_locals, k, route_i, route_j,
                   load_i, load_j, new_route, outcome, result, err_client>>

\* faulty variant of FirstOverCapacity: a demand equal to the capacity
\* counts as exceeding it
RECURSIVE FirstOverCapacityOrEqual(_)
FirstOverCapacityOrEqual(c) ==
    IF c >= num_clients THEN -1
    ELSE IF capacity # Inf /\ client_demands[c] >= capacity THEN c
    ELSE FirstOverCapacityOrEqual(c + 1)

\* lines 213-217: the first client, in index order, whose demand exceeds
\* the capacity; -1 when there is none
RECURSIVE FirstOverCapacity(_)
FirstOverCapacity(c) ==
    IF c >= num_clients THEN -1
    ELSE IF Exceeds(client_demands[c], capacity) THEN c
    ELSE FirstOverCapacity(c + 1)

\* lines 213-217: the precondition check raises ValueError or lets the
\* merge loop start
SavingsCheck ==
    /\ builder = "savings" /\ pc = "check"
    /\ LET c == FirstOverCapacity(0)
       IN  IF c # -1
           THEN pc' = "error" /\ err_client' = c /\ k' = k
           ELSE pc' = "merge" /\ err_client' = err_client /\ k' = 1
    /\ UNCHANGED <<instance, num_vehicles, builder, invocation,
                   first_result,
                   order_locals, routes, split_locals, savings_list,
                   route_loads, client_route, route_i, route_j, load_i,
                   load_j, new_route, outcome, result>>

\* faulty variant of Orient: the wrong route is reversed in the last two
\* cases
OrientSwapped(ri_, rj_, i_first, i_last, j_first, j_last) ==
    IF i_last /\ j_first THEN ri_ \o rj_
    ELSE IF i_first /\ j_last THEN rj_ \o ri_
    ELSE IF i_first /\ j_first THEN ri_ \o Reversed(rj_)
    ELSE IF i_last /\ j_last THEN Reversed(ri_) \o rj_
    ELSE <<>>

\* lines 253-262: the orientation chosen for the merged route; <<>> stands
\* for the final else branch
Orient(ri_, rj_, i_first, i_last, j_first, j_last) ==
    IF i_last /\ j_first THEN ri_ \o rj_
    ELSE IF i_first /\ j_last THEN rj_ \o ri_
    ELSE IF i_first /\ j_first THEN Reversed(ri_) \o rj_
    ELSE IF i_last /\ j_last THEN ri_ \o Reversed(rj_)
    ELSE <<>>

\* line 248: both clients sit at an end of their routes
AtEnds(i_first, i_last, j_first, j_last) ==
    (i_first \/ i_last) /\ (j_first \/ j_last)

\* faulty variant of OverCapacity: only the first load is compared
OverCapacityOne(li, lj) == Exceeds(li, capacity)

\* line 239: the two loads together do not fit
OverCapacity(li, lj) == Exceeds(li + lj, capacity)

\* faulty variant of Remap: only the client the pair named is remapped,
\* not the whole absorbed route
RemapPairOnly(cr, absorbed, cj, ri) ==
    [c \in Clients |-> IF c = cj THEN ri ELSE cr[c]]

\* lines 270-272: every client of the absorbed route now maps to slot ri
Remap(cr, absorbed, cj, ri) ==
    [c \in Clients |-> IF c \in Range(absorbed) THEN ri ELSE cr[c]]

\* lines 220-272: one iteration of the merge loop, on savings_list[k]
SavingsMerge ==
    /\ builder = "savings" /\ pc = "merge"
    /\ k <= Len(savings_list)
    /\ LET ci == savings_list[k][2]
           cj == savings_list[k][3]
           ri == client_route[ci]
           rj == client_route[cj]
           rt_i == routes[ri]
           rt_j == routes[rj]
           li == route_loads[ri]
           lj == route_loads[rj]
           i_first == rt_i[1] = ci
           i_last == rt_i[Len(rt_i)] = ci
           j_first == rt_j[1] = cj
           j_last == rt_j[Len(rt_j)] = cj
           nr == Orient(rt_i, rt_j, i_first, i_last, j_first, j_last)
           skip(why) ==
               /\ outcome' = why
               /\ UNCHANGED <<routes, route_loads, client_route, new_route>>
       IN  IF ri = rj
           THEN /\ skip("same_route")
                /\ UNCHANGED <<route_i, route_j, load_i, load_j>>
           ELSE /\ route_i' = rt_i
                /\ route_j' = rt_j
                /\ IF rt_i = <<>> \/ rt_j = <<>>
                   THEN skip("emptied") /\ UNCHANGED <<load_i, load_j>>
                   ELSE /\ load_i' = li
                        /\ load_j' = lj
                        /\ IF OverCapacity(li, lj)
                           THEN skip("over_capacity")
                           ELSE IF ~AtEnds(i_first, i_last, j_first, j_last)
                           THEN skip("interior")
                           ELSE IF nr = <<>>
                           THEN skip("no_orientation")
                           ELSE /\ outcome' = "merged"
                                /\ new_route' = nr
                                /\ routes' = [routes EXCEPT ![ri] = nr,
                                                            ![rj] = <<>>]
                                /\ route_loads' =
                                      [route_loads EXCEPT ![ri] = li + lj,
                                                          ![rj] = 0]
                                /\ client_route' =
                                      Remap(client_route, rt_j, cj, ri)
    /\ k' = k + 1
    /\ UNCHANGED <<instance, num_vehicles, builder, pc, invocation,
                   first_result,
                   order_locals, split_locals, savings_list, result,
                   err_client>>

\* line 275: [r for r in routes if r], in slot order
RECURSIVE NonEmptyRoutes(_, _)
NonEmptyRoutes(rs, r) ==
    IF r >= num_clients THEN <<>>
    ELSE (IF rs[r] # <<>> THEN <<rs[r]>> ELSE <<>>)
         \o NonEmptyRoutes(rs, r + 1)

\* lines 275-284: empty slots are dropped, the fleet size repaired, and
\* savings returns
SavingsFinish ==
    /\ builder = "savings" /\ pc = "merge"
    /\ k > Len(savings_list)
    /\ \E mv \in NumVehicles :
          LET final_routes == NonEmptyRoutes(routes, 0)
          IN  /\ num_vehicles' = mv
              /\ result' = IF mv > 0 /\ Len(final_routes) > mv
                           THEN TailMerge(final_routes, mv)
                           ELSE final_routes
    /\ pc' = "done"
    /\ UNCHANGED <<instance, builder, invocation, first_result,
                   order_locals, routes, split_locals, savings_locals,
                   err_client>>

\* ------------------------------------------------------ the harness
\* runner.py calls the same builder once per execution on the same instance
\* file; every local is built afresh
Reinvoke ==
    /\ pc \in {"done", "error"}
    /\ invocation = 1
    /\ invocation' = 2
    /\ first_result' = [err |-> err_client, routes |-> result,
                        num_vehicles |-> num_vehicles]
    /\ pc' = "start"
    /\ unvisited' = {}
    /\ route' = <<>>
    /\ tour' = <<>>
    /\ best_pos' = -1
    /\ best_client' = -1
    /\ routes' = <<>>
    /\ current_route' = <<>>
    /\ current_load' = 0
    /\ idx' = 0
    /\ savings_list' = <<>>
    /\ route_loads' = <<>>
    /\ client_route' = <<>>
    /\ k' = 0
    /\ route_i' = <<>>
    /\ route_j' = <<>>
    /\ load_i' = 0
    /\ load_j' = 0
    /\ new_route' = <<>>
    /\ outcome' = "none"
    /\ result' = <<>>
    /\ err_client' = -1
    /\ num_vehicles' = -1
    /\ UNCHANGED <<instance, builder>>

Next ==
    \/ RfcsFirst
    \/ RfcsNearest
    \/ InsertionFirst
    \/ InsertionStep
    \/ SplitStep
    \/ SplitFinish
    \/ InsertionReturn
    \/ RfcsRepair
    \/ SavingsSetup
    \/ SavingsCheck
    \/ SavingsMerge
    \/ SavingsFinish

Spec == Init /\ [][Next]_vars

\* the same builder invoked a second time on the same instance
InitTwice == Init /\ num_clients <= MaxRerunClients

NextTwice == Next \/ Reinvoke

SpecTwice == InitTwice /\ [][NextTwice]_vars
\* =================================================================
\* Properties
\* =================================================================
\* dem > capacity, written out for the properties
OverCap(x) == capacity # Inf /\ x > capacity

\* the routes construction produced, before the fleet-size repair
Constructed ==
    IF builder = "savings" THEN NonEmptyRoutes(routes, 0) ELSE routes

\* routes p .. Len(rs) of rs, one after the other
RECURSIVE ConcatFrom(_, _)
ConcatFrom(rs, p) ==
    IF p > Len(rs) THEN <<>> ELSE rs[p] \o ConcatFrom(rs, p + 1)

\* the number of positions of sequence r that hold client c
Occurrences(r, c) == Cardinality({p \in 1 .. Len(r) : r[p] = c})

\* the repair changed the route list: its last route is a merged one
RepairMerged ==
    /\ builder \in {"route_first_cluster_second", "savings"}
    /\ num_vehicles > 0
    /\ Len(Constructed) > num_vehicles

\* C1 - Partition completeness: whenever a builder returns, every client
\* index 0..n-1 appears exactly once across the returned routes, also after
\* the fleet-size merge.
C1_PartitionComplete ==
    pc = "done" =>
        \A c \in Clients : Occurrences(ConcatFrom(result, 1), c) = 1

C1_Witness ==
    /\ pc = "done"
    /\ RepairMerged
    /\ num_clients >= 3
    /\ Len(result) = 2

\* C2 - Fleet ceiling: when the vehicle count is greater than 0, no builder
\* returns more routes than the vehicle count.
C2_FleetCeiling ==
    (pc = "done" /\ num_vehicles > 0) => Len(result) <= num_vehicles

C4_SavingsPrecondition ==
    /\ pc = "error" =>
          /\ builder = "savings"
          /\ err_client \in Clients
          /\ OverCap(client_demands[err_client])
          /\ k = 0 /\ outcome = "none"
          /\ \A r \in Clients : routes[r] = <<r>>
          /\ result = <<>>
    /\ (builder = "savings" /\ pc \in {"merge", "done"}) =>
          \A c \in Clients : ~OverCap(client_demands[c])

C4_Witness ==
    /\ pc = "error"
    /\ num_clients >= 3
    /\ err_client > 0
    /\ \E c \in Clients : c # err_client /\ ~OverCap(client_demands[c])

\* C5 - In insertion and route_first_cluster_second a client whose own
\* demand exceeds the capacity raises nothing, and in the routes of the
\* left-to-right split (before any fleet-size merge) it is alone in its route.
C5_OversizeAlone ==
    builder \in {"insertion", "route_first_cluster_second"} =>
        /\ pc # "error"
        /\ pc \in {"return", "repair", "done"} =>
              \A p \in 1 .. Len(routes) : \A q \in 1 .. Len(routes[p]) :
                  OverCap(client_demands[routes[p][q]])
                      => routes[p] = <<routes[p][q]>>

C5_Witness ==
    /\ builder = "insertion"
    /\ pc = "done"
    /\ num_clients >= 3
    /\ \E p \in 2 .. (Len(routes) - 1) :
          /\ OverCap(client_demands[routes[p][1]])
          /\ ~OverCap(client_demands[routes[p - 1][1]])
          /\ ~OverCap(client_demands[routes[p + 1][1]])

\* C6 - Tail-merge repair of route_first_cluster_second and savings: with k
\* constructed routes and k > max_vehicles > 0 the result has exactly
\* max_vehicles routes, the first max_vehicles - 1 unchanged and in order,
\* the last the concatenation of routes max_vehicles - 1 .. k - 1; with
\* k <= max_vehicles the routes are returned unchanged.
C6_TailMerge ==
    (pc = "done" /\ builder \in {"route_first_cluster_second", "savings"}) =>
        /\ (num_vehicles > 0 /\ Len(Constructed) > num_vehicles) =>
              /\ Len(result) = num_vehicles
              /\ \A p \in 1 .. (num_vehicles - 1) : result[p] = Constructed[p]
              /\ result[num_vehicles] = ConcatFrom(Constructed, num_vehicles)
        /\ Len(Constructed) <= num_vehicles => result = Constructed

C6_Witness ==
    /\ pc = "done"
    /\ builder = "savings"
    /\ num_vehicles = 2
    /\ Len(Constructed) >= 3
    /\ Len(Constructed[1]) >= 2

C6_WitnessUnchanged ==
    /\ pc = "done"
    /\ builder = "route_first_cluster_second"
    /\ Len(Constructed) = 2
    /\ num_vehicles = 2

\* C7 - A vehicle count of 0 means unconstrained: in
\* route_first_cluster_second and savings the fleet-size repair then returns
\* the constructed routes unchanged, however many there are.
C7_ZeroUnconstrained ==
    (pc = "done" /\ builder \in {"route_first_cluster_second", "savings"}
     /\ num_vehicles = 0) => result = Constructed

C7_Witness ==
    /\ pc = "done"
    /\ builder = "route_first_cluster_second"
    /\ num_vehicles = 0
    /\ Len(Constructed) >= 3

\* the clients still unvisited before tour position p was filled
Remaining(p) == Clients \ {tour[q] : q \in 1 .. (p - 1)}

\* the point the nearest-neighbour search for tour position p started from
SearchedFrom(p) ==
    IF p = 1 THEN depot_coord ELSE client_coords[tour[p - 1]]

\* the route as it was before the last insertion
RouteBefore ==
    SubSeq(route, 1, best_pos) \o SubSeq(route, best_pos + 2, Len(route))

\* C8 - Determinism: a second invocation of the same builder on the same
\* instance returns the same routes in the same order (or raises on the same
\* client), and ties are settled by fixed rules: the lowest client index
\* among equally near neighbours, the lowest client index and then the
\* leftmost position among equal insertion increases, ascending (i, j) among
\* equal savings.
C8_Determinism ==
    /\ (invocation = 2 /\ pc \in {"done", "error"}) =>
          /\ result = first_result.routes
          /\ err_client = first_result.err
    /\ builder = "route_first_cluster_second" =>
          \A p \in 1 .. Len(tour) : \A c \in Remaining(p) :
              LET from == SearchedFrom(p)
                  chosen == Euclidean(from, client_coords[tour[p]])
                  other == Euclidean(from, client_coords[c])
              IN  chosen < other \/ (chosen = other /\ tour[p] <= c)
    /\ (builder = "insertion" /\ best_client # -1) =>
          \A c \in unvisited \cup {best_client} :
              \A pos \in 0 .. Len(RouteBefore) :
                  LET chosen == Increase(RouteBefore, best_client, best_pos)
                      other == Increase(RouteBefore, c, pos)
                  IN  \/ chosen < other
                      \/ /\ chosen = other
                         /\ \/ best_client < c
                            \/ best_client = c /\ best_pos <= pos
    /\ builder = "savings" =>
          \A p \in 1 .. Len(savings_list) :
            \A q \in (p + 1) .. Len(savings_list) :
              LET a == savings_list[p]
                  b == savings_list[q]
              IN  \/ a[1] > b[1]
                  \/ /\ a[1] = b[1]
                     /\ a[2] < b[2] \/ (a[2] = b[2] /\ a[3] < b[3])

\* a second invocation has returned merged routes that ties decided
C8_Witness ==
    /\ invocation = 2
    /\ pc = "done"
    /\ builder = "insertion"
    /\ num_clients >= 3
    /\ \E c \in unvisited \cup {best_client} :
        \E pos \in 0 .. Len(RouteBefore) :
          /\ <<c, pos>> # <<best_client, best_pos>>
          /\ Increase(RouteBefore, c, pos)
                = Increase(RouteBefore, best_client, best_pos)
    /\ \E a, b \in Clients : client_coords[a] # client_coords[b]

\* the pair the last iteration of the merge loop worked on
LastI == savings_list[k - 1][2]
LastJ == savings_list[k - 1][3]

\* C9 - Savings load invariant: once the precondition check has passed, at
\* every iteration of the merge loop route_loads[r] is the sum of the demands
\* of the clients of routes[r] and is <= capacity, for every slot r; and a
\* merge is performed only when the two loads together fit the capacity.
C9_SavingsLoads ==
    (builder = "savings" /\ pc \in {"merge", "done"}) =>
        /\ \A r \in Clients :
              /\ route_loads[r] = SumDemand(routes[r], client_demands)
              /\ ~OverCap(route_loads[r])
        /\ outcome = "merged" =>
              /\ ~OverCap(load_i + load_j)
              /\ route_loads[client_route[LastI]] = load_i + load_j

C9_Witness ==
    /\ builder = "savings" /\ pc = "merge"
    /\ outcome = "merged"
    /\ capacity # Inf
    /\ load_i + load_j = capacity
    /\ load_i + load_j > 0
    /\ Len(new_route) >= 3

\* c is the first or the last client of route r
AtEndOf(c, r) == r # <<>> /\ (r[1] = c \/ r[Len(r)] = c)

\* a and b are neighbours in route r
Adjacent(a, b, r) ==
    \E p \in 1 .. (Len(r) - 1) :
        (r[p] = a /\ r[p + 1] = b) \/ (r[p] = b /\ r[p + 1] = a)

\* r is x followed by y, each as it was or fully reversed
BlocksOf(r, x, y) ==
    \E bx \in {x, Reversed(x)} : \E by \in {y, Reversed(y)} : r = bx \o by

\* C10 - Savings endpoint merging: a pair (i, j) is merged only when i is
\* the first or last client of its route and j the first or last of its
\* route; in the merged route i and j are adjacent and each of the two
\* original routes is a contiguous block, in its original order or reversed.
C10_EndpointMerge ==
    (builder = "savings" /\ outcome = "merged") =>
        /\ AtEndOf(LastI, route_i)
        /\ AtEndOf(LastJ, route_j)
        /\ Adjacent(LastI, LastJ, new_route)
        /\ BlocksOf(new_route, route_i, route_j)
              \/ BlocksOf(new_route, route_j, route_i)
        /\ routes[client_route[LastI]] = new_route
        /\ client_route[LastJ] = client_route[LastI]

\* two routes of two clients each were joined head to head, one reversed
C10_Witness ==
    /\ builder = "savings" /\ outcome = "merged"
    /\ Len(route_i) >= 2 /\ Len(route_j) >= 2
    /\ route_i[1] = LastI /\ route_j[1] = LastJ
    /\ new_route = Reversed(route_i) \o route_j

\* the slots whose route holds client c
SlotsOf(c) == {r \in Clients : \E p \in 1 .. Len(routes[r]) : routes[r][p] = c}

\* C11 - In the savings merge loop the client-to-route map agrees with the
\* routes: at the start of every iteration (and when the loop has ended)
\* every client c is a member of routes[client_route[c]] and of no other
\* slot; so no iteration takes the 'route already emptied' skip or the final
\* 'else: continue' of the orientation choice.
C11_ClientRouteConsistent ==
    (builder = "savings" /\ pc \in {"merge", "done"}) =>
        /\ \A c \in Clients : SlotsOf(c) = {client_route[c]}
        /\ outcome \notin {"emptied", "no_orientation"}

\* a route of two or more clients has been absorbed, its slot is empty, and
\* the loop goes on with pairs still to process
C11_Witness ==
    /\ builder = "savings" /\ pc = "merge"
    /\ outcome = "merged"
    /\ Len(route_j) >= 2
    /\ \E r \in Clients : routes[r] = <<>>
    /\ k <= Len(savings_list)
====
